---- MODULE Spec2Model ----
(***************************************************************************)
(* Model of the terminal snake game of src/src/main.rs: the game loop      *)
(* (Game::run), the snake (Snake::slither and the four move_* functions),  *)
(* collision detection, feeding, food placement and key handling.          *)
(*                                                                         *)
(* One iteration of Game::run is a sequence of steps, one per statement of *)
(* run; pc names the statement that executes next.                         *)
(***************************************************************************)
EXTENDS Integers, Sequences, FiniteSets

VARIABLES
    body,       \* Snake.body: sequence of Points, head first
    direction,  \* Snake.direction
    grow,       \* Snake.grow (pending growth)
    state,      \* Game.state
    food,       \* Game.food
    score,      \* Game.score
    content,    \* Game.output.content: the frame queued and not yet flushed
    screen,     \* what the last flush wrote to the terminal
    new_food,   \* place_new_food: the candidate cell (local new_food)
    ok,         \* place_new_food: the local flag ok
    pc,         \* the statement of Game::run / main that executes next
    iter,       \* number of iterations of Game::run started
    keys        \* number of key presses (non-Tick actions) read

vars == <<body, direction, grow, state, food, score, content, screen,
          new_food, ok, pc, iter, keys>>

----------------------------------------------------------------------------
(* Bounds of the model: a session is explored for one of two budgets of    *)
(* loop iterations and key presses, chosen by how long it runs.            *)

\* longest session explored (iterations of Game::run)
LongIters == 53
\* key presses explored in a long session
LongKeys == 2
\* iterations explored in a session with more key presses
ShortIters == 14
\* key presses explored in a short session
ShortKeys == 4

\* a session runs on past ShortIters only while it has used few keys
MayIterate == iter < ShortIters \/ (iter < LongIters /\ keys <= LongKeys)
MayPressKey == keys < (IF iter <= ShortIters THEN ShortKeys ELSE LongKeys)

----------------------------------------------------------------------------
(* Program constants *)

\* u16 coordinates: values 0 .. 65535
U16 == 65536

\* Game::new, frame: Rectangle::new((30, 30), (100, 60))
FrameLeft == 30
FrameTop == 30
FrameRight == 100
FrameBottom == 60

Point(x, y) == [x |-> x, y |-> y]

Directions == {"Right", "Left", "Up", "Down"}
GameStates == {"Menu", "Play", "GameOver"}
Actions == {"Tick", "Quit", "StartGame", "Restart",
            "MoveUp", "MoveDown", "MoveLeft", "MoveRight"}
MoveActions == {"MoveUp", "MoveDown", "MoveLeft", "MoveRight"}

\* Snake::new: 13 cells (60,50) .. (72,50), head first
InitialBody == [i \in 1..13 |-> Point(59 + i, 50)]

\* Game::new: food: Point::new(40, 45)
InitialFood == Point(40, 45)

\* Game::place_new_food: gen_range(top_left + 1 .. bottom_right - 1), the
\* upper end excluded
FoodRange == {Point(x, y) : x \in (FrameLeft + 1)..(FrameRight - 2),
                            y \in (FrameTop + 1)..(FrameBottom - 2)}

\* the random draws explored: the cell the head is on at the first meal, a
\* cell further along the way up, a cell of the initial body's row
FoodDraws == {p \in FoodRange : p \in {Point(40, 45), Point(40, 42), Point(66, 50)}}

Cells(b) == {b[i] : i \in 1..Len(b)}

----------------------------------------------------------------------------
(* Snake *)

\* mutant: the tail is never popped
AdvanceNoPop(b, g, head) == <<head>> \o b

\* the insert(0, ..) / pop() / grow = false of every move_* function
Advance(b, g, head) ==
    IF g THEN <<head>> \o b ELSE <<head>> \o SubSeq(b, 1, Len(b) - 1)

\* mutant: the step to the right is forgotten
move_right_in_place(head) == Point(head.x, head.y)

\* the new head each move_* function computes, in u16 arithmetic as a
\* build without overflow checks performs it
move_left(head) == Point((head.x - 1) % U16, head.y)
move_right(head) == Point((head.x + 1) % U16, head.y)
move_up(head) == Point(head.x, (head.y - 1) % U16)
move_down(head) == Point(head.x, (head.y + 1) % U16)

NewHead(d, head) ==
    CASE d = "Up" -> move_up(head)
      [] d = "Down" -> move_down(head)
      [] d = "Left" -> move_left(head)
      [] d = "Right" -> move_right(head)

\* the u16 subtraction or addition of the move overflows
Overflows(d, head) ==
    \/ d = "Left" /\ head.x = 0
    \/ d = "Right" /\ head.x = U16 - 1
    \/ d = "Up" /\ head.y = 0
    \/ d = "Down" /\ head.y = U16 - 1

\* Snake::slither, first statement of Game::run.  On overflow a build with
\* overflow checks panics, a build without them wraps.
Slither ==
    /\ pc = "slither"
    /\ MayIterate
    /\ iter' = iter + 1
    /\ \/ /\ body' = Advance(body, grow, NewHead(direction, body[1]))
          /\ grow' = FALSE
          /\ pc' = "check_collisions"
       \/ /\ Overflows(direction, body[1])
          /\ pc' = "panicked"
          /\ UNCHANGED <<body, grow>>
    /\ UNCHANGED <<direction, state, food, score, content, screen,
                   new_food, ok, keys>>

----------------------------------------------------------------------------
(* Game *)

\* mutant: the bounds themselves are not a collision
WallHitStrict(head) ==
    \/ head.x < FrameLeft
    \/ head.x > FrameRight
    \/ head.y < FrameTop
    \/ head.y > FrameBottom

\* mutant: the cells next to the left and top bounds count as the wall
WallHitOffByOne(head) ==
    \/ head.x <= FrameLeft + 1
    \/ head.x >= FrameRight
    \/ head.y <= FrameTop + 1
    \/ head.y >= FrameBottom

\* the four wall tests of Game::check_collisions
WallHit(head) ==
    \/ head.x <= FrameLeft
    \/ head.x >= FrameRight
    \/ head.y <= FrameTop
    \/ head.y >= FrameBottom

\* mutant: the loop over the body never runs
SelfHitNever(b) == \E i \in {} : b[i] = b[1]

\* mutant: the loop runs over the last index too
SelfHitWithTail(b) == \E i \in 2..Len(b) : b[i] = b[1]

\* for point_idx in 1..len-1 (0-based, end excluded): 2..Len-1 here
SelfHit(b) == \E i \in 2..(Len(b) - 1) : b[i] = b[1]

\* Game::check_collisions
CheckCollisions ==
    /\ pc = "check_collisions"
    /\ state' = IF WallHit(body[1]) \/ SelfHit(body) THEN "GameOver" ELSE state
    /\ pc' = "feed_snake"
    /\ UNCHANGED <<body, direction, grow, food, score, content, screen,
                   new_food, ok, iter, keys>>

\* Game::feed_snake up to the draw of the candidate in place_new_food
FeedSnake ==
    /\ pc = "feed_snake"
    /\ IF body[1] = food
         THEN /\ \E c \in FoodDraws : new_food' = <<c>>
              /\ pc' = "place_new_food_scan"
         ELSE /\ pc' = "render"
              /\ UNCHANGED new_food
    /\ UNCHANGED <<body, direction, grow, state, food, score, content, screen,
                   ok, iter, keys>>

\* place_new_food: one pass of the for loop over the body
PlaceNewFoodScan ==
    /\ pc = "place_new_food_scan"
    /\ ok' = (new_food[1] \notin Cells(body))
    /\ pc' = "place_new_food_test"
    /\ UNCHANGED <<body, direction, grow, state, food, score, content, screen,
                   new_food, iter, keys>>

\* place_new_food: if ok { break } and the return; then the rest of
\* feed_snake.  When ok is false the loop starts over with the same new_food.
PlaceNewFoodTest ==
    /\ pc = "place_new_food_test"
    /\ IF ok
         THEN /\ food' = new_food[1]
              /\ grow' = TRUE
              /\ score' = score + 1
              /\ new_food' = <<>>
              /\ pc' = "render"
              /\ UNCHANGED ok
         ELSE /\ ok' = TRUE
              /\ pc' = "place_new_food_scan"
              /\ UNCHANGED <<food, grow, score, new_food>>
    /\ UNCHANGED <<body, direction, state, content, screen, iter, keys>>

\* the match on self.state in Game::run: menu(), tick() or game_over()
Frame(s) ==
    CASE s = "Menu" -> "menu"
      [] s = "Play" -> "tick"
      [] s = "GameOver" -> "game_over"

Render ==
    /\ pc = "render"
    /\ content' = Frame(state)
    /\ pc' = "flush"
    /\ UNCHANGED <<body, direction, grow, state, food, score, screen,
                   new_food, ok, iter, keys>>

\* Output::flush
Flush ==
    /\ pc = "flush"
    /\ screen' = content
    /\ content' = ""
    /\ pc' = "process_keypress"
    /\ UNCHANGED <<body, direction, grow, state, food, score,
                   new_food, ok, iter, keys>>

\* mutant: a movement action always sets the requested direction
TurnAlways(d, a) ==
    CASE a = "MoveUp" -> "Up"
      [] a = "MoveDown" -> "Down"
      [] a = "MoveLeft" -> "Left"
      [] a = "MoveRight" -> "Right"
      [] OTHER -> d

\* the direction after a movement action, Game::process_keypress
Turn(d, a) ==
    CASE a = "MoveUp" -> IF d = "Right" \/ d = "Left" THEN "Up" ELSE d
      [] a = "MoveDown" -> IF d = "Right" \/ d = "Left" THEN "Down" ELSE d
      [] a = "MoveLeft" -> IF d = "Up" \/ d = "Down" THEN "Left" ELSE d
      [] a = "MoveRight" -> IF d = "Up" \/ d = "Down" THEN "Right" ELSE d
      [] OTHER -> d

\* mutant: Restart is honoured in every state
RestartsAlways(a, s) == a = "Restart"

\* Action::Restart with self.state == GameState::GameOver
Restarts(a, s) == a = "Restart" /\ s = "GameOver"

\* mutant: an accepted Restart also clears the score
ProcessKeypressResetsScore(a) ==
    /\ pc = "process_keypress"
    /\ a = "Tick" \/ MayPressKey
    /\ keys' = IF a = "Tick" THEN keys ELSE keys + 1
    /\ state' = CASE a = "StartGame" /\ state = "Menu" -> "Play"
                  [] Restarts(a, state) -> "Play"
                  [] OTHER -> state
    /\ IF Restarts(a, state)
         THEN /\ body' = InitialBody
              /\ direction' = "Left"
              /\ grow' = FALSE
              /\ score' = 0
         ELSE /\ direction' = Turn(direction, a)
              /\ UNCHANGED <<body, grow, score>>
    /\ pc' = IF a = "Quit" THEN "done" ELSE "slither"
    /\ UNCHANGED <<food, content, screen, new_food, ok, iter>>

\* Game::process_keypress with the action a that read_key returned; the
\* loop of main goes on unless the action is Quit
ProcessKeypress(a) ==
    /\ pc = "process_keypress"
    /\ a = "Tick" \/ MayPressKey
    /\ keys' = IF a = "Tick" THEN keys ELSE keys + 1
    /\ state' = CASE a = "StartGame" /\ state = "Menu" -> "Play"
                  [] Restarts(a, state) -> "Play"
                  [] OTHER -> state
    /\ IF Restarts(a, state)
         THEN /\ body' = InitialBody
              /\ direction' = "Left"
              /\ grow' = FALSE
         ELSE /\ direction' = Turn(direction, a)
              /\ UNCHANGED <<body, grow>>
    /\ pc' = IF a = "Quit" THEN "done" ELSE "slither"
    /\ UNCHANGED <<food, score, content, screen, new_food, ok, iter>>

KeyPress == \E a \in Actions : ProcessKeypress(a)

----------------------------------------------------------------------------

\* Game::new
Init ==
    /\ body = InitialBody
    /\ direction = "Left"
    /\ grow = FALSE
    /\ state = "Menu"
    /\ food = InitialFood
    /\ score = 0
    /\ content = ""
    /\ screen = ""
    /\ new_food = <<>>
    /\ ok = TRUE
    /\ pc = "slither"
    /\ iter = 0
    /\ keys = 0

Next ==
    \/ Slither
    \/ CheckCollisions
    \/ FeedSnake
    \/ PlaceNewFoodScan
    \/ PlaceNewFoodTest
    \/ Render
    \/ Flush
    \/ KeyPress

Spec == Init /\ [][Next]_vars

----------------------------------------------------------------------------
(* Properties *)

\* the statements of an iteration that follow check_collisions
AfterCollisions ==
    pc \in {"feed_snake", "place_new_food_scan", "place_new_food_test",
            "render", "flush", "process_keypress"}

\* C1: whenever the head left by Snake::slither is on or beyond a bound of
\* the arena (30,30)-(100,60), the state is GameOver from check_collisions on
\* to the end of the iteration, whatever the state was before
C1_WallCollision ==
    (AfterCollisions /\ (body[1].x <= 30 \/ body[1].x >= 100
                         \/ body[1].y <= 30 \/ body[1].y >= 60))
        => state = "GameOver"

\* C1 witness: the head went from (31,50) to (30,50) and the state is GameOver
C1_Witness ==
    /\ pc = "feed_snake"
    /\ body[1] = Point(30, 50)
    /\ body[2] = Point(31, 50)
    /\ state = "GameOver"

\* C2: check_collisions sets GameOver when the head equals a body cell at a
\* 0-based index 1..len-2, and leaves the state alone when the head is
\* strictly inside the arena and equals only the last cell
C2_SelfCollision ==
    [][pc = "check_collisions" =>
        LET n == Len(body)
            inner == \E i \in 2..(n - 1) : body[i] = body[1]
            inside == /\ body[1].x > 30 /\ body[1].x < 100
                      /\ body[1].y > 30 /\ body[1].y < 60
        IN /\ inner => state' = "GameOver"
           /\ (inside /\ ~inner /\ body[n] = body[1]) => state' = state]_vars

\* C2 witness: in Play the head sits on the last cell and on no other, and
\* collision evaluation has left the state Play
C2_Witness ==
    /\ pc = "feed_snake"
    /\ state = "Play"
    /\ body[1] = body[Len(body)]
    /\ \A i \in 2..(Len(body) - 1) : body[i] # body[1]

\* C3: in an iteration whose head is on the food when feeding is evaluated,
\* feed_snake adds exactly 1 to the score, replaces the food by a cell that
\* is neither the old food cell nor a body cell and sets the pending-growth
\* flag; the body keeps its length for the rest of that iteration and is one
\* cell longer after the slither of the following iteration
C3_Feeding ==
    [][/\ pc = "place_new_food_test" =>
            /\ pc' = "render"
            /\ score' = score + 1
            /\ food' # food
            /\ food' \notin Cells(body)
            /\ grow'
            /\ body' = body
       /\ (pc \in {"render", "flush", "process_keypress"} /\ grow) =>
            (grow' /\ Len(body') = Len(body))
       /\ (pc = "slither" /\ grow) => Len(body') = Len(body) + 1]_vars

\* the cell one step from p in direction d, in plain integers
Offset(p, d) ==
    CASE d = "Up" -> [x |-> p.x, y |-> p.y - 1]
      [] d = "Down" -> [x |-> p.x, y |-> p.y + 1]
      [] d = "Left" -> [x |-> p.x - 1, y |-> p.y]
      [] d = "Right" -> [x |-> p.x + 1, y |-> p.y]

\* C4: a slither taken in Play with no growth pending keeps the length of the
\* body, puts the new head one cell from the old head along the direction and
\* shifts every other cell by one index, dropping the old tail
C4_NonGrowingMove ==
    [][(pc = "slither" /\ state = "Play" /\ ~grow) =>
        /\ pc' = "check_collisions"
        /\ Len(body') = Len(body)
        /\ body'[1] = Offset(body[1], direction)
        /\ \A i \in 1..(Len(body) - 1) : body'[i + 1] = body[i]]_vars

\* C4 witness: in Play, before any food was eaten, the snake has just moved
\* one cell down
C4_Witness ==
    /\ pc = "check_collisions"
    /\ state = "Play"
    /\ score = 0
    /\ direction = "Down"
    /\ Len(body) = 13
    /\ body[1] = [x |-> body[2].x, y |-> body[2].y + 1]

\* the direction a movement action asks for
Requested(a) ==
    CASE a = "MoveUp" -> "Up"
      [] a = "MoveDown" -> "Down"
      [] a = "MoveLeft" -> "Left"
      [] a = "MoveRight" -> "Right"

Horizontal(d) == d \in {"Left", "Right"}
Orthogonal(d, e) == Horizontal(d) # Horizontal(e)

\* C5: a movement action sets the direction to the requested one exactly
\* when the requested direction is orthogonal to the current one, in every
\* GameState; otherwise the direction stays
C5_TurnRule ==
    [][\A a \in MoveActions : ProcessKeypress(a) =>
        direction' = IF Orthogonal(Requested(a), direction)
                       THEN Requested(a) ELSE direction]_vars

\* C5 witness: the snake last moved left and a MoveUp has turned it up
C5_Witness ==
    /\ pc = "slither"
    /\ iter > 0
    /\ direction = "Up"
    /\ body[1].x = body[2].x - 1

\* the snake Snake::new builds
CanonicalSnake(b, d, g) ==
    /\ Len(b) = 13
    /\ \A i \in 1..13 : b[i] = [x |-> 59 + i, y |-> 50]
    /\ d = "Left"
    /\ g = FALSE

\* C6: Restart in GameOver sets the state to Play and replaces the snake by
\* the canonical initial snake; Restart in Menu or Play changes neither the
\* state nor the snake
C6_Restart ==
    [][ProcessKeypress("Restart") =>
        IF state = "GameOver"
          THEN state' = "Play" /\ CanonicalSnake(body', direction', grow')
          ELSE UNCHANGED <<state, body, direction, grow>>]_vars

\* C6 witness: the game-over frame is still on the screen, a Restart has
\* been handled, the snake is the canonical one again and the state is Play
C6_Witness ==
    /\ pc = "slither"
    /\ screen = "game_over"
    /\ state = "Play"
    /\ CanonicalSnake(body, direction, grow)

\* C7: in Menu a StartGame action sets the state to Play, and the state
\* leaves Menu in no other way
C7_MenuTransitions ==
    [][state = "Menu" =>
        /\ ProcessKeypress("StartGame") => state' = "Play"
        /\ state' # "Menu" => ProcessKeypress("StartGame")]_vars

\* C8: in Play no input action changes the state, and the state leaves Play
\* only to GameOver, only in check_collisions and only when the head is on or
\* beyond a wall or on a body cell at a 0-based index 1..len-2
C8_PlayTransitions ==
    [][state = "Play" =>
        /\ \A a \in Actions : ProcessKeypress(a) => state' = "Play"
        /\ state' # "Play" =>
              /\ pc = "check_collisions"
              /\ state' = "GameOver"
              /\ \/ body[1].x <= 30 \/ body[1].x >= 100
                 \/ body[1].y <= 30 \/ body[1].y >= 60
                 \/ \E i \in 2..(Len(body) - 1) : body[i] = body[1]]_vars

\* C8 witness: the Play frame is still on the screen and collision evaluation
\* has just set GameOver
C8_Witness ==
    /\ pc = "feed_snake"
    /\ screen = "tick"
    /\ state = "GameOver"

\* C9: in GameOver a movement action changes nothing a Tick would not
\* change: snake, food, score and state stay as they are
C9_GameOverIgnoresMovement ==
    [][\A a \in MoveActions : (state = "GameOver" /\ ProcessKeypress(a)) =>
        UNCHANGED <<body, direction, grow, food, score, state>>]_vars

\* the position of a statement in the order of an iteration
Phase(p) ==
    CASE p = "slither" -> 1
      [] p = "check_collisions" -> 2
      [] p \in {"feed_snake", "place_new_food_scan", "place_new_food_test"} -> 3
      [] p = "render" -> 4
      [] p = "flush" -> 5
      [] p = "process_keypress" -> 6
      [] OTHER -> 0

\* C10: every iteration, in every GameState, advances the snake, evaluates
\* collisions, evaluates feeding, composes the frame of the state collision
\* evaluation left, flushes and handles one action, in this order and each
\* once; the action handled moves no cell before the next iteration
C10_IterationOrder ==
    [][/\ pc' # pc =>
            \/ Phase(pc) \in 1..5 /\ Phase(pc') \in {Phase(pc), Phase(pc) + 1}
            \/ Phase(pc) = 6 /\ pc' \in {"slither", "done"}
       /\ pc = "slither" => pc' # pc
       /\ Phase(pc) = 3 => state' = state
       /\ pc = "render" => content' = Frame(state)
       /\ \A a \in Actions :
            ProcessKeypress(a) => (body' = body \/ Restarts(a, state))]_vars

\* C11: a Quit action ends the loop of main in every GameState, and nothing
\* else ends it: no step other than the handling of Quit stops the program,
\* by panic or otherwise
C11_QuitOnlyEnd ==
    [][/\ ProcessKeypress("Quit") => pc' = "done"
       /\ (pc' \in {"done", "panicked"} /\ pc' # pc) =>
            ProcessKeypress("Quit")]_vars

\* C12: the score changes only where feed_snake finishes a meal, and only
\* by +1; no input action, StartGame and Restart included, changes it
C12_ScoreOnlyIncrements ==
    [][/\ score' # score =>
            (pc = "place_new_food_test" /\ score' = score + 1)
       /\ \A a \in Actions : ProcessKeypress(a) => score' = score]_vars

\* C12 witness: a Restart has been handled on the game-over screen and the
\* new round starts with the positive score of the last one
C12_Witness ==
    /\ pc = "slither"
    /\ screen = "game_over"
    /\ state = "Play"
    /\ score > 0

\* C13: whenever the state changes into Play, by StartGame from Menu or by
\* Restart from GameOver, the score is 0 in the first Play state
C13_ScoreClearedOnPlay ==
    [][(state # "Play" /\ state' = "Play") => score' = 0]_vars

\* main keeps running: whatever statement is next is eventually executed
FairSpec == Spec /\ WF_vars(Next)

\* C14: place_new_food draws again after a rejected candidate, so with free
\* cells in the arena a call of place_new_food eventually returns
C14_PlacementTerminates ==
    (pc = "place_new_food_scan") ~> (pc = "render")

\* two cells one step apart along one axis, in u16 arithmetic
Adjacent(p, q) ==
    \/ p.y = q.y /\ (p.x - q.x) % 65536 \in {1, 65535}
    \/ p.x = q.x /\ (p.y - q.y) % 65536 \in {1, 65535}

\* C15: in every reachable state the body has at least one cell and every
\* two consecutive body cells differ by exactly 1 (mod 2^16) in exactly one
\* coordinate and by 0 in the other
C15_SnakeShape ==
    /\ Len(body) >= 1
    /\ \A i \in 1..(Len(body) - 1) : Adjacent(body[i], body[i + 1])

\* C15 witness: in GameOver the head has wrapped from y = 0 to y = 65535
C15_Witness ==
    /\ state = "GameOver"
    /\ body[1].y = 65535
    /\ body[2].y = 0

\* C16: no slither puts the new head on the cell that was the neck, and in
\* every reachable state the head differs from the third cell
C16_NoReversal ==
    [][/\ pc = "slither" => body'[1] # body[2]
       /\ body'[1] # body'[3]]_vars

\* C16 witness: the snake went left, up and then right, so that the head
\* passes over the cells it left two moves ago without landing on its neck
C16_Witness ==
    /\ pc = "check_collisions"
    /\ body[1] = [x |-> body[2].x + 1, y |-> body[2].y]
    /\ body[2] = [x |-> body[3].x, y |-> body[3].y - 1]
    /\ body[3] = [x |-> body[4].x - 1, y |-> body[4].y]

\* the cells b[1] .. b[n] are pairwise distinct
Distinct(b, n) == \A i, j \in 1..n : i # j => b[i] # b[j]

\* C17 as stated: in Play, after collision evaluation, no two indices of the
\* body hold the same cell
C17_BodyCellsUnique ==
    (state = "Play" /\ AfterCollisions) => Distinct(body, Len(body))

\* C17 amended: in Play, after collision evaluation, the cells at all
\* indices but the last are pairwise distinct; the last cell may repeat
C17_BodyCellsUniqueButLast ==
    (state = "Play" /\ AfterCollisions) => Distinct(body, Len(body) - 1)

\* C17 witness: in Play the frame is composed for a snake whose head lies on
\* its last cell
C17_Witness ==
    /\ pc = "flush"
    /\ content = "tick"
    /\ state = "Play"
    /\ body[1] = body[Len(body)]

\* C18: no slither computes head.x - 1 or head.y - 1 on a coordinate 0, nor
\* head.x + 1 or head.y + 1 on a coordinate 65535, in any GameState
C18_NoOverflow ==
    [][(pc = "slither" /\ pc' # pc) =>
        /\ direction = "Left" => body[1].x # 0
        /\ direction = "Up" => body[1].y # 0
        /\ direction = "Right" => body[1].x # 65535
        /\ direction = "Down" => body[1].y # 65535]_vars

\* C19: at the end of every iteration, after feeding and after the action
\* was handled, the food cell is no body cell
C19_FoodNotUnderSnake ==
    (pc = "slither" /\ iter > 0) => food \notin Cells(body)

\* no further iteration is taken: the loop has ended on Quit, or the model
\* explores the session no further
Horizon == pc = "done" \/ (pc = "slither" /\ ~MayIterate)

\* C20: from every state with state Menu or Play, if no key is pressed from
\* then on (every action is Tick) and iterations keep being taken, the state
\* eventually is GameOver
C20_UnattendedRoundEnds ==
    \A k \in 0..(LongKeys + ShortKeys) :
        (state \in {"Menu", "Play"} /\ keys = k)
            ~> (state = "GameOver" \/ keys # k \/ Horizon)

====
